---- MODULE Spec2Model ----
\* A model of src/src/conn.rs: the SASL EXTERNAL handshake of Connection::new
\* and the buffered byte transport (recv / consume / write_buf / flush) of a
\* Connection.  Bytes are their integer values; a byte string is a sequence.
EXTENDS Integers, Sequences, FiniteSets, TLC

\* ---------------------------------------------------------------- bounds

\* Capacity of the std::io::BufReader wrapped around the cloned stream
\* (conn.rs:81), scaled down so that read-ahead and the direct-read path of
\* BufReader::read both happen on short streams.
BufCap == 4
\* How far the length of the text between the response prefix and its
\* terminator ranges around the 32 bytes of a GUID.
Slack == 3
\* The most bytes the server sends after the response line.
MaxExtra == 2
\* The most bytes callers append to the send buffer.
MaxAppend == 1
\* Every user id up to this one is tried for the authentication identity.
MaxUid == 120

\* ------------------------------------------------------- byte literals

NUL == 0
LF == 10
CR == 13
\* b"OK "
OK_PREFIX == <<79, 75, 32>>
\* The number of bytes taken as the server GUID.
GUID_LEN == 32
\* "\0AUTH EXTERNAL "
AUTH_EXTERNAL == <<NUL, 65, 85, 84, 72, 32, 69, 88, 84, 69, 82, 78, 65, 76, 32>>
\* "\r\n"
CRLF == <<CR, LF>>
\* b"BEGIN\r\n"
BEGIN == <<66, 69, 71, 73, 78, CR, LF>>
\* "unix:path="
UNIX_PATH_PREFIX == <<117, 110, 105, 120, 58, 112, 97, 116, 104, 61>>

\* ------------------------------------------------------- pure helpers

Min(a, b) == IF a < b THEN a ELSE b

\* s[n+1 ..], the slice &s[n..]
Drop(s, n) == SubSeq(s, n + 1, Len(s))

\* s[.. n], the slice &s[..n]
Take(s, n) == SubSeq(s, 1, n)

\* [u8]::starts_with
starts_with(s, p) == Len(s) >= Len(p) /\ Take(s, Len(p)) = p

\* iter().rev().nth(1).copied(): the last byte but one, as an Option
\* (<<>> is None, <<b>> is Some(b)).
rev_nth1(s) == IF Len(s) >= 2 THEN <<s[Len(s) - 1]>> ELSE <<>>

\* A resize that fills the whole vector (vec![value; new_len]).
resize_refilled(v, new_len, value) == [i \in 1..new_len |-> value]

\* Vec::resize(new_len, value)
resize(v, new_len, value) ==
    [i \in 1..new_len |-> IF i <= Len(v) THEN v[i] ELSE value]

\* A consume that moves the cursor and leaves the bytes where they are.
copy_within_nothing(v, src_start, src_end, dest) == v

\* <[u8]>::copy_within(src_start..src_end, dest) for dest <= src_start:
\* a memmove of the source range to offset dest (offsets are 0-based).
copy_within(v, src_start, src_end, dest) ==
    [i \in 1..Len(v) |->
        IF i > dest /\ i <= dest + (src_end - src_start)
        THEN v[i - dest + src_start]
        ELSE v[i]]

\* The position of the first `delim` in s, or 0 (memchr).
RECURSIVE memchr_from(_, _, _)
memchr_from(delim, s, i) ==
    IF i > Len(s) THEN 0
    ELSE IF s[i] = delim THEN i
    ELSE memchr_from(delim, s, i + 1)

memchr(delim, s) == memchr_from(delim, s, 1)

\* u32::to_string: the decimal digits, most significant first, as ASCII bytes.
RECURSIVE to_string(_)
to_string(n) ==
    IF n < 10 THEN <<48 + n>>
    ELSE Append(to_string(n \div 10), 48 + (n % 10))

\* One lowercase hexadecimal digit as an ASCII byte.
hex_digit(d) == IF d < 10 THEN 48 + d ELSE 97 + (d - 10)

\* The lowercase hexadecimal digits of n, most significant first.
RECURSIVE lower_hex(_)
lower_hex(n) ==
    IF n < 16 THEN <<hex_digit(n)>>
    ELSE Append(lower_hex(n \div 16), hex_digit(n % 16))

\* format!("{:2}", n): decimal where hexadecimal was meant.
format_2_decimal(n) ==
    LET d == to_string(n)
    IN  IF Len(d) < 2 THEN <<32>> \o d ELSE d

\* format!("{:2x}", n): lowercase hex, right-aligned in a field of at least
\* two, padded on the left with spaces.
format_2x(n) ==
    LET h == lower_hex(n)
    IN  IF Len(h) < 2 THEN <<32>> \o h ELSE h

\* .chars().map(|c| format!("{:2x}", c as u32)).collect::<String>()
RECURSIVE map_format_2x(_)
map_format_2x(s) ==
    IF s = <<>> THEN <<>>
    ELSE format_2x(Head(s)) \o map_format_2x(Tail(s))

\* ------------------------------------------------------------- errors

\* std::io::Error values the operating system can report, and those among
\* them that a read can report.
OsErrors == {"EPIPE", "ECONNRESET"}
ReadErrors == {"ECONNRESET"}
\* std::io::Error::new(ErrorKind::Other, "malformed response")
MalformedResponse == "Other: malformed response"
\* std::io::ErrorKind::UnexpectedEof.into()
UnexpectedEof == "UnexpectedEof"

\* ConnectError::Authenticate(err)
Authenticate(err) ==
    [variant |-> "Authenticate", err |-> <<err>>, bus_path |-> <<>>, value |-> <<>>]

\* A connect failure mapped like the failures that follow it.
ConnectAsAuthenticate(p, err) == Authenticate(err)

\* ConnectError::Connect { bus_path, err }
Connect(p, err) ==
    [variant |-> "Connect", err |-> <<err>>, bus_path |-> <<p>>, value |-> <<>>]

\* ConnectError::SessionBusEnvVar(value), value an Option
SessionBusEnvVar(value) ==
    [variant |-> "SessionBusEnvVar", err |-> <<>>, bus_path |-> <<>>, value |-> <<value>>]

\* A source() that knows the cause of Connect alone.
source_of_connect_only(e) ==
    CASE e.variant = "Connect" -> e.err
      [] OTHER -> <<>>

\* <ConnectError as std::error::Error>::source, as an Option
source(e) ==
    CASE e.variant = "Authenticate" -> e.err
      [] e.variant = "Connect" -> e.err
      [] OTHER -> <<>>

\* The outcome of Connection::new: still running, Ok(Connection), Err(e), or
\* a panic that unwinds out of the call.
Running == [kind |-> "Running", error |-> <<>>]
Ok == [kind |-> "Ok", error |-> <<>>]
Err(e) == [kind |-> "Err", error |-> <<e>>]
Panicked == [kind |-> "Panic", error |-> <<>>]

\* ------------------------------------------------------------- inputs

\* "/a" and "/b"
PATH_A == <<47, 97>>
PATH_B == <<47, 98>>

\* BusPath::Session and BusPath::UnixSocketFile(path)
BusPaths ==
    { [mode |-> "Session", path |-> <<>>],
      [mode |-> "UnixSocketFile", path |-> PATH_B] }

\* Values of DBUS_SESSION_BUS_ADDRESS, as the Option std::env::var_os gives:
\* unset, "unix:path=/a", "unix:path=" (an empty path), "unix:path" (shorter
\* than the prefix), "tcp:", "" and "/a".
EnvValues ==
    { <<>>,
      <<UNIX_PATH_PREFIX \o PATH_A>>,
      <<UNIX_PATH_PREFIX>>,
      <<Take(UNIX_PATH_PREFIX, Len(UNIX_PATH_PREFIX) - 1)>>,
      <<<<116, 99, 112, 58>>>>,
      <<<<>>>>,
      <<PATH_A>> }

\* SaslAuthType::Uid and SaslAuthType::Other("x")
SaslAuthTypes ==
    { [type |-> "Uid", id |-> <<>>],
      [type |-> "Other", id |-> <<120>>] }

\* Values of libc::getuid().
Uids == {1000}

\* What a server may send: a prefix, then n distinct printable bytes, then a
\* terminator (or none), then bytes of the binary protocol that follows.
Prefixes == { <<>>, <<79, 75>>, OK_PREFIX }
BodyLens == {0} \cup ((GUID_LEN - Slack)..(GUID_LEN + Slack))
Body(n) == [i \in 1..n |-> 32 + i]
Tails == { CRLF, <<LF>>, <<CR, 88>>, <<>> }
Extra(n) == [i \in 1..n |-> 127 + i]

ServerStreams ==
    { p \o Body(b) \o t \o Extra(e) :
        p \in Prefixes, b \in BodyLens, t \in Tails, e \in 0..MaxExtra }

\* -------------------------------------------------------------- state

VARIABLES
    bus_path,        \* argument of Connection::new
    sasl_auth_type,  \* argument of Connection::new
    env,             \* DBUS_SESSION_BUS_ADDRESS
    uid,             \* libc::getuid()
    pc,              \* the statement Connection::new is at
    sock_path,       \* the local bus_path the socket is connected to
    result,          \* what Connection::new returned
    connects,        \* how many times UnixStream::connect was called
    stream,          \* every byte the server sends on this connection
    closes,          \* whether the server closes after sending `stream`
    sock_pos,        \* how many bytes of `stream` the reader took off the socket
    wire_out,        \* every byte written to the socket
    flushed,         \* Len(wire_out) at the last successful writer.flush()
    io_fail,         \* the I/O failure injected into the handshake, an Option
    br_buf,          \* the bytes buffered inside the BufReader
    read_buf,        \* Connection.read_buf (the local read_buf during new)
    read_end,        \* Connection.read_end
    write_buf,       \* Connection.write_buf
    server_guid,     \* Connection.server_guid
    consumed,        \* every byte consume() has removed, in order
    appended,        \* every byte appended to write_buf, in order
    last             \* the last operation, its argument and its outcome

vars ==
    << bus_path, sasl_auth_type, env, uid, pc, sock_path, result, connects,
       stream, closes, sock_pos, wire_out, flushed, io_fail, br_buf, read_buf,
       read_end, write_buf, server_guid, consumed, appended, last >>

inputs == << bus_path, sasl_auth_type, env, uid >>
socket == << stream, closes, sock_pos, wire_out, flushed, br_buf >>
fields == << read_buf, read_end, write_buf, server_guid >>
ghosts == << consumed, appended >>

Op(name, n, ret) == [op |-> name, n |-> n, ret |-> ret]

Init ==
    /\ bus_path \in BusPaths
    /\ env \in (IF bus_path.mode = "Session" THEN EnvValues ELSE {<<>>})
    /\ sasl_auth_type \in SaslAuthTypes
    /\ uid \in (IF sasl_auth_type.type = "Uid" THEN Uids ELSE {0})
    /\ pc = "resolve"
    /\ sock_path = <<>>
    /\ result = Running
    /\ connects = 0
    /\ stream = <<>>
    /\ closes = FALSE
    /\ sock_pos = 0
    /\ wire_out = <<>>
    /\ flushed = 0
    /\ io_fail = <<>>
    /\ br_buf = <<>>
    /\ read_buf = <<>>
    /\ read_end = 0
    /\ write_buf = <<>>
    /\ server_guid = <<>>
    /\ consumed = <<>>
    /\ appended = <<>>
    /\ last = Op("new", 0, "")

\* ------------------------------------------------- the socket and reader

\* The outcomes of one read(2) on the socket into a buffer of `max` bytes:
\* between one and `max` of the bytes not yet taken, none at end of stream,
\* or an error.  With nothing left and the peer still open the read blocks.
SockRead(max) ==
    { [ok |-> TRUE, data |-> SubSeq(stream, sock_pos + 1, sock_pos + k), err |-> ""] :
        k \in 1..Min(max, Len(stream) - sock_pos) }
    \cup (IF sock_pos = Len(stream) /\ closes
          THEN {[ok |-> TRUE, data |-> <<>>, err |-> ""]} ELSE {})
    \cup { [ok |-> FALSE, data |-> <<>>, err |-> e] : e \in ReadErrors }

\* BufReader::fill_buf: the buffered bytes, refilled from the socket only
\* when none are buffered.
fill_buf ==
    IF br_buf # <<>>
    THEN {[ok |-> TRUE, data |-> br_buf, pulled |-> 0, err |-> ""]}
    ELSE { [ok |-> r.ok, data |-> r.data, pulled |-> Len(r.data), err |-> r.err] :
             r \in SockRead(BufCap) }

\* BufReader::read into a destination of dest_len bytes: straight from the
\* socket when nothing is buffered and the destination is at least as large
\* as the internal buffer, else from the (re)filled internal buffer.  `data`
\* is what lands in the destination, `rest` what stays buffered.
reader_read(dest_len) ==
    IF br_buf = <<>> /\ dest_len >= BufCap
    THEN { [ok |-> r.ok, data |-> r.data, rest |-> <<>>, pulled |-> Len(r.data), err |-> r.err] :
             r \in SockRead(dest_len) }
    ELSE { [ok |-> r.ok,
            data |-> Take(r.data, Min(Len(r.data), dest_len)),
            rest |-> Drop(r.data, Min(Len(r.data), dest_len)),
            pulled |-> r.pulled,
            err |-> r.err] : r \in fill_buf }

\* ----------------------------------------------------- Connection::new

\* The identity sent for authentication.
sasl_auth_id ==
    IF sasl_auth_type.type = "Uid"
    THEN map_format_2x(to_string(uid))
    ELSE sasl_auth_type.id

\* format_args!("\0AUTH EXTERNAL {}\r\n", sasl_auth_id)
AuthLine == AUTH_EXTERNAL \o sasl_auth_id \o CRLF

\* Connection::new returns `r`; nothing of the connection under
\* construction survives an early return.
Return(r) ==
    /\ result' = r
    /\ pc' = "done"

\* An I/O operation of the handshake fails with `e` at statement `step`.
Fail(step, e) == io_fail' = <<[step |-> step, err |-> e]>>

\* The whole address taken as the path, prefix included.
session_bus_path_unstripped(address) == address

\* &session_bus_address_bytes["unix:path=".len()..]
session_bus_path(address) == Drop(address, Len(UNIX_PATH_PREFIX))

\* The match on bus_path up to the call of UnixStream::connect.
Resolve ==
    /\ pc = "resolve"
    /\ \/ /\ bus_path.mode = "Session"
          /\ env = <<>>
          /\ Return(Err(SessionBusEnvVar(<<>>)))
          /\ UNCHANGED sock_path
       \/ /\ bus_path.mode = "Session"
          /\ env # <<>>
          /\ starts_with(env[1], UNIX_PATH_PREFIX)
          /\ sock_path' = session_bus_path(env[1])
          /\ pc' = "connect"
          /\ UNCHANGED result
       \/ /\ bus_path.mode = "Session"
          /\ env # <<>>
          /\ ~starts_with(env[1], UNIX_PATH_PREFIX)
          /\ Return(Err(SessionBusEnvVar(env)))
          /\ UNCHANGED sock_path
       \/ /\ bus_path.mode = "UnixSocketFile"
          /\ sock_path' = bus_path.path
          /\ pc' = "connect"
          /\ UNCHANGED result
    /\ UNCHANGED << inputs, connects, socket, io_fail, fields, ghosts, last >>

\* UnixStream::connect(bus_path).map_err(ConnectError::Connect { .. })?
\* No socket is bound to the empty path, so connecting to it only fails.
ConnectStream ==
    /\ pc = "connect"
    /\ connects' = connects + 1
    /\ \/ /\ sock_path # <<>>
          /\ pc' = "clone"
          /\ UNCHANGED << result, io_fail >>
       \/ \E e \in OsErrors :
             /\ Fail("connect", e)
             /\ Return(Err(Connect(sock_path, e)))
    /\ UNCHANGED << inputs, sock_path, socket, fields, ghosts, last >>

\* stream.try_clone().map_err(ConnectError::Authenticate)?
CloneStream ==
    /\ pc = "clone"
    /\ \/ /\ pc' = "write_auth"
          /\ UNCHANGED << result, io_fail >>
       \/ \E e \in OsErrors :
             /\ Fail("clone", e)
             /\ Return(Err(Authenticate(e)))
    /\ UNCHANGED << inputs, sock_path, connects, socket, fields, ghosts, last >>

\* write!(writer, "\0AUTH EXTERNAL {}\r\n", sasl_auth_id)
\*     .map_err(ConnectError::Authenticate)?
\* A failed write may have put any proper prefix of the line on the wire.
WriteAuth ==
    /\ pc = "write_auth"
    /\ \/ /\ wire_out' = wire_out \o AuthLine
          /\ pc' = "flush_auth"
          /\ UNCHANGED << result, io_fail >>
       \/ \E e \in OsErrors, k \in 0..(Len(AuthLine) - 1) :
             /\ wire_out' = wire_out \o Take(AuthLine, k)
             /\ Fail("write_auth", e)
             /\ Return(Err(Authenticate(e)))
    /\ UNCHANGED << inputs, sock_path, connects, stream, closes, sock_pos,
                    flushed, br_buf, fields, ghosts, last >>

\* writer.flush().map_err(ConnectError::Authenticate)?
\* Once the line is flushed the server answers: what it will send on this
\* connection, and whether it then closes, is fixed here.
FlushAuth ==
    /\ pc = "flush_auth"
    /\ \/ /\ flushed' = Len(wire_out)
          /\ \E s \in ServerStreams, c \in BOOLEAN :
                /\ stream' = s
                /\ closes' = c
          /\ pc' = "read_line"
          /\ UNCHANGED << result, io_fail >>
       \/ \E e \in OsErrors :
             /\ Fail("flush_auth", e)
             /\ Return(Err(Authenticate(e)))
             /\ UNCHANGED << flushed, stream, closes >>
    /\ UNCHANGED << inputs, sock_path, connects, sock_pos, wire_out, br_buf,
                    fields, ghosts, last >>

\* A line read through a reader that is thrown away afterwards: what the
\* reader took from the socket beyond the '\n' is dropped.
ReadLineUnbuffered ==
    /\ pc = "read_line"
    /\ \E r \in fill_buf :
          IF r.ok
          THEN LET i == memchr(LF, r.data)
                   used == IF i > 0 THEN i ELSE Len(r.data)
               IN  /\ read_buf' = read_buf \o Take(r.data, used)
                   /\ br_buf' = IF i > 0 THEN <<>> ELSE Drop(r.data, used)
                   /\ sock_pos' = sock_pos + r.pulled
                   /\ pc' = IF i > 0 \/ used = 0 THEN "validate" ELSE "read_line"
                   /\ UNCHANGED << result, io_fail >>
          ELSE /\ Fail("read_line", r.err)
               /\ Return(Err(Authenticate(r.err)))
               /\ UNCHANGED << read_buf, br_buf, sock_pos >>
    /\ UNCHANGED << inputs, sock_path, connects, stream, closes, wire_out,
                    flushed, read_end, write_buf, server_guid, ghosts, last >>

\* One turn of the loop of reader.read_until(b'\n', &mut read_buf): fill_buf,
\* append what is available up to and including the first '\n', consume it,
\* and return once a '\n' was found or nothing was available.
ReadLine ==
    /\ pc = "read_line"
    /\ \E r \in fill_buf :
          IF r.ok
          THEN LET i == memchr(LF, r.data)
                   used == IF i > 0 THEN i ELSE Len(r.data)
               IN  /\ read_buf' = read_buf \o Take(r.data, used)
                   /\ br_buf' = Drop(r.data, used)
                   /\ sock_pos' = sock_pos + r.pulled
                   /\ pc' = IF i > 0 \/ used = 0 THEN "validate" ELSE "read_line"
                   /\ UNCHANGED << result, io_fail >>
          ELSE /\ Fail("read_line", r.err)
               /\ Return(Err(Authenticate(r.err)))
               /\ UNCHANGED << read_buf, br_buf, sock_pos >>
    /\ UNCHANGED << inputs, sock_path, connects, stream, closes, wire_out,
                    flushed, read_end, write_buf, server_guid, ghosts, last >>

\* read_buf.iter().rev().nth(1).copied() != Some(b'\r')
terminator_missing(line) == rev_nth1(line) # <<CR>>

\* A prefix check that lets every line pass.
has_ok_prefix_unchecked(line) == TRUE

\* read_buf.starts_with(b"OK ")
has_ok_prefix(line) == starts_with(line, OK_PREFIX)

\* Whether &read_buf[b"OK ".len()..(b"OK ".len() + 32)] is within bounds.
guid_in_bounds(line) == Len(OK_PREFIX) + GUID_LEN <= Len(line)

\* A slice that starts one byte early.
guid_slice_one_early(line) ==
    SubSeq(line, Len(OK_PREFIX), Len(OK_PREFIX) + GUID_LEN - 1)

\* &read_buf[b"OK ".len()..(b"OK ".len() + 32)]
guid_slice(line) ==
    SubSeq(line, Len(OK_PREFIX) + 1, Len(OK_PREFIX) + GUID_LEN)

\* The check of the terminator, the check of the prefix and the slice that
\* takes the GUID; then read_buf.clear(); read_buf.resize(1, 0).
\* Slicing past the end of read_buf panics.
Validate ==
    /\ pc = "validate"
    /\ IF terminator_missing(read_buf)
       THEN /\ Return(Err(Authenticate(MalformedResponse)))
            /\ UNCHANGED << read_buf, server_guid >>
       ELSE IF ~has_ok_prefix(read_buf)
       THEN /\ Return(Err(Authenticate(MalformedResponse)))
            /\ UNCHANGED << read_buf, server_guid >>
       ELSE IF ~guid_in_bounds(read_buf)
       THEN /\ Return(Panicked)
            /\ UNCHANGED << read_buf, server_guid >>
       ELSE /\ server_guid' = guid_slice(read_buf)
            /\ read_buf' = resize(<<>>, 1, 0)
            /\ pc' = "write_begin"
            /\ UNCHANGED result
    /\ UNCHANGED << inputs, sock_path, connects, socket, io_fail, read_end,
                    write_buf, ghosts, last >>

\* writer.write_all(b"BEGIN\r\n").map_err(ConnectError::Authenticate)?
WriteBegin ==
    /\ pc = "write_begin"
    /\ \/ /\ wire_out' = wire_out \o BEGIN
          /\ pc' = "flush_begin"
          /\ UNCHANGED << result, io_fail >>
       \/ \E e \in OsErrors, k \in 0..(Len(BEGIN) - 1) :
             /\ wire_out' = wire_out \o Take(BEGIN, k)
             /\ Fail("write_begin", e)
             /\ Return(Err(Authenticate(e)))
    /\ UNCHANGED << inputs, sock_path, connects, stream, closes, sock_pos,
                    flushed, br_buf, fields, ghosts, last >>

\* writer.flush().map_err(ConnectError::Authenticate)?; Ok(Connection { .. })
FlushBegin ==
    /\ pc = "flush_begin"
    /\ \/ /\ flushed' = Len(wire_out)
          /\ read_end' = 0
          /\ write_buf' = <<>>
          /\ Return(Ok)
          /\ UNCHANGED io_fail
       \/ \E e \in OsErrors :
             /\ Fail("flush_begin", e)
             /\ Return(Err(Authenticate(e)))
             /\ UNCHANGED << flushed, read_end, write_buf >>
    /\ UNCHANGED << inputs, sock_path, connects, stream, closes, sock_pos,
                    wire_out, br_buf, read_buf, server_guid, ghosts, last >>

\* ------------------------------------------------- the byte transport

\* A Connection exists: Connection::new returned Ok.
Connected == result.kind = "Ok"

\* &self.read_buf[..self.read_end]
available == Take(read_buf, read_end)

\* A buffer that never grows.
grow_never(buf, end) == buf

\* A growth of one byte at a time.
grow_by_one(buf, end) ==
    IF end = Len(buf) THEN resize(buf, Len(buf) + 1, 0) ELSE buf

\* The first statement of recv: a full buffer doubles, zero-filled.
grow(buf, end) ==
    IF end = Len(buf) THEN resize(buf, Len(buf) * 2, 0) ELSE buf

\* A read into &mut buf[..] instead of &mut buf[end..].
read_into_from_start(buf, end, data) ==
    [i \in 1..Len(buf) |-> IF i <= Len(data) THEN data[i] ELSE buf[i]]

\* What reader.read(&mut buf[end..]) leaves in buf when it delivers `data`.
read_into(buf, end, data) ==
    [i \in 1..Len(buf) |->
        IF i > end /\ i <= end + Len(data) THEN data[i - end] ELSE buf[i]]

\* Connection::recv
Recv ==
    /\ Connected
    /\ LET buf == grow(read_buf, read_end)
       IN  \E r \in reader_read(Len(buf) - read_end) :
              /\ sock_pos' = sock_pos + r.pulled
              /\ br_buf' = IF r.ok THEN r.rest ELSE br_buf
              /\ IF ~r.ok
                 THEN /\ read_buf' = buf
                      /\ UNCHANGED read_end
                      /\ last' = Op("recv", 0, r.err)
                 ELSE IF Len(r.data) = 0
                 THEN /\ read_buf' = buf
                      /\ UNCHANGED read_end
                      /\ last' = Op("recv", 0, UnexpectedEof)
                 ELSE /\ read_buf' = read_into(buf, read_end, r.data)
                      /\ read_end' = read_end + Len(r.data)
                      /\ last' = Op("recv", Len(r.data), "Ok")
    /\ UNCHANGED << inputs, pc, sock_path, result, connects, stream, closes,
                    wire_out, flushed, io_fail, write_buf, server_guid, ghosts >>

\* Connection::consume(consumed), for consumed <= read_end (a larger
\* argument panics in copy_within and is left to the callers to avoid).
Consume ==
    /\ Connected
    /\ \E n \in 0..read_end :
          /\ read_buf' = copy_within(read_buf, n, read_end, 0)
          /\ read_end' = read_end - n
          /\ consumed' = consumed \o Take(read_buf, n)
          /\ last' = Op("consume", n, "Ok")
    /\ UNCHANGED << inputs, pc, sock_path, result, connects, socket, io_fail,
                    write_buf, server_guid, appended >>

\* A write_buf() that hands out &mut self.server_guid.
AppendByteToGuid ==
    /\ Connected
    /\ Len(appended) < MaxAppend
    /\ LET b == 200 + Len(appended)
       IN  /\ server_guid' = Append(server_guid, b)
           /\ appended' = Append(appended, b)
           /\ last' = Op("write_buf", b, "Ok")
    /\ UNCHANGED << inputs, pc, sock_path, result, connects, socket, io_fail,
                    read_buf, read_end, write_buf, consumed >>

\* A caller appends one byte through Connection::write_buf(); the byte is
\* numbered by its place among all bytes appended.
AppendByte ==
    /\ Connected
    /\ Len(appended) < MaxAppend
    /\ LET b == 200 + Len(appended)
       IN  /\ write_buf' = Append(write_buf, b)
           /\ appended' = Append(appended, b)
           /\ last' = Op("write_buf", b, "Ok")
    /\ UNCHANGED << inputs, pc, sock_path, result, connects, socket, io_fail,
                    read_buf, read_end, server_guid, consumed >>

\* The bytes on the wire once the handshake is over.
HandshakeOut == AuthLine \o BEGIN

\* A flush that writes the send buffer and does not clear it.
FlushWithoutClear ==
    /\ Connected
    /\ \/ /\ wire_out' = wire_out \o write_buf
          /\ flushed' = Len(wire_out')
          /\ last' = Op("flush", 0, "Ok")
       \/ \E e \in OsErrors :
             /\ wire_out' = wire_out \o write_buf
             /\ UNCHANGED flushed
             /\ last' = Op("flush", 0, e)
       \/ \E e \in OsErrors, k \in 0..(Len(write_buf) - 1) :
             /\ Len(wire_out) + k <= Len(HandshakeOut) + MaxAppend
             /\ wire_out' = wire_out \o Take(write_buf, k)
             /\ UNCHANGED flushed
             /\ last' = Op("flush", k, e)
    /\ Len(wire_out') <= Len(HandshakeOut) + 2 * MaxAppend
    /\ UNCHANGED << inputs, pc, sock_path, result, connects, stream, closes,
                    sock_pos, br_buf, io_fail, read_buf, read_end, write_buf,
                    server_guid, ghosts >>

\* Connection::flush: write_all, then clear, then the writer's flush.  A
\* failed write_all may have written a proper prefix of write_buf, which is
\* then not cleared.
Flush ==
    /\ Connected
    /\ \/ /\ wire_out' = wire_out \o write_buf
          /\ write_buf' = <<>>
          /\ flushed' = Len(wire_out')
          /\ last' = Op("flush", 0, "Ok")
       \/ \E e \in OsErrors :
             /\ wire_out' = wire_out \o write_buf
             /\ write_buf' = <<>>
             /\ UNCHANGED flushed
             /\ last' = Op("flush", 0, e)
       \/ \E e \in OsErrors, k \in 0..(Len(write_buf) - 1) :
             /\ Len(wire_out) + k <= Len(HandshakeOut) + MaxAppend
             /\ wire_out' = wire_out \o Take(write_buf, k)
             /\ UNCHANGED << write_buf, flushed >>
             /\ last' = Op("flush", k, e)
    /\ UNCHANGED << inputs, pc, sock_path, result, connects, stream, closes,
                    sock_pos, br_buf, io_fail, read_buf, read_end, server_guid,
                    ghosts >>

\* ------------------------------------------------------ specification

Next ==
    \/ Resolve
    \/ ConnectStream
    \/ CloneStream
    \/ WriteAuth
    \/ FlushAuth
    \/ ReadLine
    \/ Validate
    \/ WriteBegin
    \/ FlushBegin
    \/ Recv
    \/ Consume
    \/ AppendByte
    \/ Flush

Spec == Init /\ [][Next]_vars

\* ----------------------------------------------- vocabulary of the claims

IsPrefix(p, s) == Len(p) <= Len(s) /\ \A i \in 1..Len(p) : s[i] = p[i]

EndsWith(s, t) == Len(t) <= Len(s) /\ \A i \in 1..Len(t) : s[Len(s) - Len(t) + i] = t[i]

\* The server's response line: what it sent up to and including the first
\* '\n', or all it sent when it closed without sending one.
LineFeeds == {i \in 1..Len(stream) : stream[i] = LF}
LineEnd ==
    IF LineFeeds = {} THEN Len(stream)
    ELSE CHOOSE i \in LineFeeds : \A j \in LineFeeds : i <= j
ResponseLine == SubSeq(stream, 1, LineEnd)

\* The reading of the response line is over and did not fail.
ReadFinished ==
    \/ pc \in {"validate", "write_begin", "flush_begin"}
    \/ /\ pc = "done"
       /\ flushed > 0
       /\ io_fail = <<>> \/ io_fail[1].step \in {"write_begin", "flush_begin"}

\* Connection::new returned Err(ConnectError::Authenticate(_)).
ReturnedAuthenticate ==
    /\ result.kind = "Err"
    /\ result.error[1].variant = "Authenticate"

\* The response line is one the specification rejects.
BadResponse ==
    \/ ~EndsWith(ResponseLine, CRLF)
    \/ ~IsPrefix(OK_PREFIX, ResponseLine)

\* ------------------------------------------------------------------ C1

\* C1 (as claimed): whenever the response line does not end in "\r\n" or does
\* not begin with "OK ", a response cut short by end of stream included,
\* what Connection::new returns is ConnectError::Authenticate and no
\* Connection.  (A call that panics returns nothing; see C16.)
C1_Original ==
    (result.kind \in {"Ok", "Err"} /\ ReadFinished /\ BadResponse)
        => (ReturnedAuthenticate /\ ~Connected)

\* ------------------------------------------------------------------ C2

\* The response line is "OK ", 32 bytes, "\r\n".
GoodResponse ==
    /\ Len(ResponseLine) = Len(OK_PREFIX) + GUID_LEN + Len(CRLF)
    /\ IsPrefix(OK_PREFIX, ResponseLine)
    /\ EndsWith(ResponseLine, CRLF)

\* The 32 bytes at offsets 3..35 of the response line.
ResponseGuid == [i \in 1..GUID_LEN |-> ResponseLine[Len(OK_PREFIX) + i]]

\* C2 (as claimed): when the server answers "OK ", 32 bytes, "\r\n",
\* Connection::new succeeds and server_guid() is those 32 bytes, in order.
C2_Original ==
    (pc = "done" /\ ReadFinished /\ GoodResponse)
        => (Connected /\ server_guid = ResponseGuid)

\* C2 (amended): when the server answers "OK ", 32 bytes, "\r\n",
\* Connection::new succeeds with server_guid() equal to those 32 bytes, in
\* order, unless writing or flushing BEGIN fails, in which case it returns
\* ConnectError::Authenticate with that I/O error.
C2_GuidOfGoodResponse ==
    (pc = "done" /\ ReadFinished /\ GoodResponse)
        => IF io_fail = <<>>
           THEN Connected /\ server_guid = ResponseGuid
           ELSE result = Err(Authenticate(io_fail[1].err))

C2_Witness ==
    /\ Connected
    /\ GoodResponse
    /\ server_guid = Body(GUID_LEN)

\* ------------------------------------------------------------------ C3

\* The code let the response pass: a '\r' last but one and "OK " first.
AcceptedResponse ==
    /\ Len(ResponseLine) >= 2
    /\ ResponseLine[Len(ResponseLine) - 1] = CR
    /\ IsPrefix(OK_PREFIX, ResponseLine)

\* C3: the bytes written during Connection::new are a prefix of the AUTH
\* line followed by BEGIN; nothing is read off the socket before the whole
\* AUTH line is written and flushed; exactly one response line is read; and
\* a byte of BEGIN is on the wire only if the response was read with no
\* failure and accepted as an OK response.
C3_LinearOrder ==
    /\ ~Connected => IsPrefix(wire_out, AuthLine \o BEGIN)
    /\ (sock_pos > 0 \/ pc \in {"read_line", "validate", "write_begin", "flush_begin"})
          => (IsPrefix(AuthLine, wire_out) /\ flushed >= Len(AuthLine))
    /\ pc \in {"read_line", "validate"} => wire_out = AuthLine
    /\ pc = "validate" => read_buf = ResponseLine
    /\ Len(wire_out) > Len(AuthLine)
          => (ReadFinished /\ AcceptedResponse /\ pc \in {"write_begin", "flush_begin", "done"})
    /\ (pc = "done" /\ io_fail # <<>> /\ io_fail[1].step \notin {"write_begin", "flush_begin"})
          => Len(wire_out) <= Len(AuthLine)
    /\ (pc = "done" /\ result = Err(Authenticate(MalformedResponse)))
          => wire_out = AuthLine

C3_Witness ==
    /\ Connected
    /\ last.op = "new"
    /\ wire_out = AuthLine \o BEGIN
    /\ sock_pos >= LineEnd

\* ------------------------------------------------------------------ C4

\* The session bus address cannot be resolved.
HasUnixPathPrefix(v) ==
    /\ Len(v) >= Len(UNIX_PATH_PREFIX)
    /\ \A i \in 1..Len(UNIX_PATH_PREFIX) : v[i] = UNIX_PATH_PREFIX[i]

ResolveFails ==
    /\ bus_path.mode = "Session"
    /\ env = <<>> \/ ~HasUnixPathPrefix(env[1])

\* Some step of the handshake failed: resolution, an I/O operation, or the
\* validation of the response.
StepFailed ==
    \/ ResolveFails
    \/ io_fail # <<>>
    \/ ReadFinished /\ BadResponse

\* C4 (as claimed): the socket is connected at most once, the AUTH line is
\* written at most once, and the call ends with Ok or Err, with Err and no
\* Connection whenever a step failed.
C4_Original ==
    /\ connects <= 1
    /\ ~Connected => IsPrefix(wire_out, AuthLine \o BEGIN)
    /\ pc = "done" => result.kind \in {"Ok", "Err"}
    /\ (pc = "done" /\ StepFailed) => result.kind = "Err"

\* ------------------------------------------------------------------ C5

\* C5: in Session mode, an unset variable gives SessionBusEnvVar(None), a
\* value without the prefix "unix:path=" gives SessionBusEnvVar(Some(v)) with
\* the raw value, in both cases with no connect and nothing sent; otherwise
\* the socket path is exactly what follows the prefix.
C5_SessionAddress ==
    (bus_path.mode = "Session" /\ pc # "resolve") =>
        /\ env = <<>> =>
              /\ result = Err(SessionBusEnvVar(<<>>))
              /\ connects = 0 /\ wire_out = <<>>
        /\ (env # <<>> /\ ~HasUnixPathPrefix(env[1])) =>
              /\ result = Err(SessionBusEnvVar(<<env[1]>>))
              /\ connects = 0 /\ wire_out = <<>>
        /\ (env # <<>> /\ HasUnixPathPrefix(env[1])) =>
              /\ UNIX_PATH_PREFIX \o sock_path = env[1]
              /\ result.kind = "Err" => result.error[1].variant # "SessionBusEnvVar"

C5_Witness ==
    /\ bus_path.mode = "Session"
    /\ env # <<>>
    /\ Len(env[1]) = Len(UNIX_PATH_PREFIX) - 1
    /\ pc = "done"
    /\ result.kind = "Err"
    /\ result.error[1].value = <<env>>

\* ------------------------------------------------------------------ C6

\* The path the call is to connect to.
TargetPath ==
    IF bus_path.mode = "Session"
    THEN SubSeq(env[1], Len(UNIX_PATH_PREFIX) + 1, Len(env[1]))
    ELSE bus_path.path

\* Establishing the stream failed.
ConnectFails == io_fail # <<>> /\ io_fail[1].step = "connect"

\* C6 (as claimed): every failure of the Connect step, to resolve the address
\* or to establish the stream, is ConnectError::Connect with the path and the
\* cause.
C6_Original ==
    (pc = "done" /\ (ResolveFails \/ ConnectFails)) =>
        /\ result.kind = "Err"
        /\ result.error[1].variant = "Connect"

\* C6 (amended): a failure to establish the stream is ConnectError::Connect
\* carrying the socket path and the underlying cause; a failure to resolve
\* the address in Session mode is ConnectError::SessionBusEnvVar carrying the
\* raw value of the variable, with no path and no cause.
C6_ConnectStepErrors ==
    /\ (pc = "done" /\ ConnectFails) =>
          result = Err([variant |-> "Connect", err |-> <<io_fail[1].err>>,
                        bus_path |-> <<TargetPath>>, value |-> <<>>])
    /\ (pc = "done" /\ ResolveFails) =>
          /\ result.kind = "Err"
          /\ result.error[1].variant = "SessionBusEnvVar"
          /\ result.error[1].value = <<env>>
          /\ result.error[1].err = <<>>

C6_Witness ==
    /\ pc = "done"
    /\ ConnectFails
    /\ bus_path.mode = "Session"
    /\ result.kind = "Err"
    /\ result.error[1].bus_path = <<PATH_A>>

\* ------------------------------------------------------------------ C7

\* C7: an I/O failure after the socket is connected ends Connection::new
\* with ConnectError::Authenticate carrying that error; source() of an
\* Authenticate or Connect error is the carried I/O error; no I/O failure
\* lets the call go on.
C7_IoFailures ==
    /\ io_fail # <<>> =>
          /\ pc = "done"
          /\ result.kind = "Err"
          /\ source(result.error[1]) = <<io_fail[1].err>>
          /\ io_fail[1].step # "connect" =>
                /\ result.error[1].variant = "Authenticate"
                /\ result.error[1].err = <<io_fail[1].err>>
    /\ (result.kind = "Err" /\ result.error[1].variant \in {"Authenticate", "Connect"}) =>
          /\ result.error[1].err # <<>>
          /\ source(result.error[1]) = result.error[1].err

C7_Witness ==
    /\ pc = "done"
    /\ io_fail # <<>>
    /\ io_fail[1].step = "read_line"
    /\ sock_pos > 0
    /\ result = Err(Authenticate(io_fail[1].err))

\* ------------------------------------------------------------------ C8

\* C8: a step of consume(n), n <= the length of available(), leaves as
\* available() the old available bytes from index n on, in order, from offset
\* 0 of the receive buffer; consume(0) changes nothing and consuming
\* everything leaves nothing.
C8_Consume ==
    [][ last'.op = "consume" =>
          /\ last'.n <= Len(available)
          /\ Len(available') = Len(available) - last'.n
          /\ \A i \in 1..Len(available') :
                read_buf'[i] = available[last'.n + i]
          /\ last'.n = 0 => (read_buf' = read_buf /\ read_end' = read_end)
          /\ last'.n = Len(available) => available' = <<>>
      ]_vars

C8_Witness ==
    /\ last.op = "consume"
    /\ last.n > 0
    /\ read_end > 0
    /\ consumed # <<>>

\* ------------------------------------------------------------------ C9

\* The bytes recv has taken: those of the stream after the response line
\* that are no longer on the socket nor held back inside the reader.
Received == SubSeq(stream, LineEnd + 1, sock_pos - Len(br_buf))

\* C9: the bytes removed by consume followed by the available bytes are
\* exactly the bytes recv has read off the stream so far.
C9_NoLossNoDuplication ==
    Connected => consumed \o available = Received

C9_Witness ==
    /\ Connected
    /\ consumed # <<>>
    /\ read_end > 0
    /\ Len(read_buf) > 1
    /\ consumed \o available = Extra(MaxExtra)

\* ----------------------------------------------------------------- C10

\* The socket has nothing more to give: the stream is at its end, the peer
\* closed, and the reader holds nothing back.
AtEndOfStream == sock_pos = Len(stream) /\ closes /\ br_buf = <<>>

\* C10: a step of recv at end of stream returns UnexpectedEof (or an OS
\* error), a recv that returns an error leaves available() as it was, and a
\* recv that returns Ok has added at least one byte to available().
C10_RecvFailure ==
    [][ last'.op = "recv" =>
          /\ AtEndOfStream => last'.ret \in {UnexpectedEof} \cup ReadErrors
          /\ last'.ret = UnexpectedEof => AtEndOfStream
          /\ last'.ret # "Ok" => available' = available
          /\ last'.ret = "Ok" =>
                /\ Len(available') >= Len(available) + 1
                /\ IsPrefix(available, available')
      ]_vars

C10_Witness ==
    /\ last.op = "recv"
    /\ last.ret = UnexpectedEof
    /\ read_end > 0
    /\ Len(read_buf) = 2 * read_end


\* ----------------------------------------------------------------- C11

\* C11: the server GUID is set by the one step of the handshake that takes
\* it from the response and by no other step: no recv, consume, flush or
\* append on the Connection changes what server_guid() returns.
C11_GuidImmutable ==
    [][ /\ pc # "validate" => server_guid' = server_guid
        /\ last'.op \in {"recv", "consume", "flush", "write_buf"}
              => server_guid' = server_guid
      ]_vars

C11_Witness ==
    /\ Connected
    /\ consumed # <<>>
    /\ read_end > 0
    /\ appended # <<>>
    /\ wire_out = HandshakeOut \o appended
    /\ server_guid = guid_slice(ResponseLine)


\* ----------------------------------------------------------------- C12

\* The handshake up to the writing of the AUTH EXTERNAL line, for many user
\* ids and caller-supplied identities ("x", "" and "1000").
AuthUids == (0..MaxUid) \cup {1000, 65534, 2147483647}

AuthSaslTypes ==
    SaslAuthTypes \cup
        { [type |-> "Other", id |-> <<>>],
          [type |-> "Other", id |-> <<49, 48, 48, 48>>] }

AuthInit ==
    /\ bus_path \in BusPaths
    /\ env \in (IF bus_path.mode = "Session"
                THEN {<<>>, <<UNIX_PATH_PREFIX \o PATH_A>>, <<PATH_A>>}
                ELSE {<<>>})
    /\ sasl_auth_type \in AuthSaslTypes
    /\ uid \in (IF sasl_auth_type.type = "Uid" THEN AuthUids ELSE {0})
    /\ pc = "resolve"
    /\ sock_path = <<>>
    /\ result = Running
    /\ connects = 0
    /\ stream = <<>>
    /\ closes = FALSE
    /\ sock_pos = 0
    /\ wire_out = <<>>
    /\ flushed = 0
    /\ io_fail = <<>>
    /\ br_buf = <<>>
    /\ read_buf = <<>>
    /\ read_end = 0
    /\ write_buf = <<>>
    /\ server_guid = <<>>
    /\ consumed = <<>>
    /\ appended = <<>>
    /\ last = Op("new", 0, "")

AuthNext ==
    \/ Resolve
    \/ ConnectStream
    \/ CloneStream
    \/ WriteAuth

AuthSpec == AuthInit /\ [][AuthNext]_vars

\* The decimal representation of n: how many digits it has, and its i-th
\* digit counted from the most significant one.
RECURSIVE NumDigits(_)
NumDigits(n) == IF n < 10 THEN 1 ELSE 1 + NumDigits(n \div 10)

RECURSIVE Pow10(_)
Pow10(k) == IF k = 0 THEN 1 ELSE 10 * Pow10(k - 1)

DigitAt(n, i) == (n \div Pow10(NumDigits(n) - i)) % 10

\* For each decimal digit d of the user id, the character '3' and then the
\* character d; or the caller's string.
ExpectedIdentity ==
    IF sasl_auth_type.type = "Uid"
    THEN [j \in 1..(2 * NumDigits(uid)) |->
            IF j % 2 = 1 THEN 51 ELSE 48 + DigitAt(uid, j \div 2)]
    ELSE sasl_auth_type.id

\* C12: the identity in the AUTH EXTERNAL line is, for SaslAuthType::Uid,
\* the two lowercase hex characters of the ASCII code of each decimal digit
\* of the user id ('3' then the digit), most significant digit first, twice
\* as long as the number of digits; for SaslAuthType::Other(s) it is s.
C12_Identity ==
    pc = "flush_auth" =>
        /\ wire_out = AUTH_EXTERNAL \o ExpectedIdentity \o CRLF
        /\ sasl_auth_type.type = "Uid" =>
              Len(wire_out) = Len(AUTH_EXTERNAL) + 2 * NumDigits(uid) + Len(CRLF)

C12_Witness ==
    /\ pc = "flush_auth"
    /\ sasl_auth_type.type = "Uid"
    /\ uid = 1000
    /\ wire_out = AUTH_EXTERNAL \o <<51, 49, 51, 48, 51, 48, 51, 48>> \o CRLF


\* ----------------------------------------------------------------- C13

RECURSIVE IsPowerOfTwo(_)
IsPowerOfTwo(n) ==
    IF n <= 1 THEN n = 1
    ELSE n % 2 = 0 /\ IsPowerOfTwo(n \div 2)

\* C13: the capacity of the receive buffer is 1 when the Connection is made;
\* afterwards a step changes it only if it is a recv entered with a full
\* buffer, and every such recv, failing or not, exactly doubles it; so it is
\* always a power of two and never decreases.
C13_Capacity ==
    [][ /\ (Connected' /\ ~Connected) => Len(read_buf') = 1
        /\ Connected =>
              /\ Len(read_buf') # Len(read_buf) =>
                    /\ last'.op = "recv"
                    /\ read_end = Len(read_buf)
              /\ (last'.op = "recv" /\ read_end = Len(read_buf)) =>
                    Len(read_buf') = 2 * Len(read_buf)
              /\ Len(read_buf') >= Len(read_buf)
              /\ IsPowerOfTwo(Len(read_buf'))
      ]_vars

C13_Witness ==
    /\ Connected
    /\ last.op = "recv"
    /\ Len(read_buf) = 4
    /\ read_end = 2


\* ----------------------------------------------------------------- C14

\* A step of flush that returned an error.
FlushFailed == last'.op = "flush" /\ last'.ret # "Ok"

\* Everything appended so far is on the wire after BEGIN, once and in
\* order, but for what still waits in the send buffer.
SentInOrder == wire_out \o write_buf = HandshakeOut \o appended

HandshakeNext ==
    \/ Resolve
    \/ ConnectStream
    \/ CloneStream
    \/ WriteAuth
    \/ FlushAuth
    \/ ReadLine
    \/ Validate
    \/ WriteBegin
    \/ FlushBegin

\* A statement of Connection::new completes without an I/O error.  The read
\* of the response line can do so only when the socket has a byte to give
\* or the peer has closed it: otherwise the read blocks.
HandshakeRuns == HandshakeNext /\ io_fail' = io_fail

\* The call runs on one thread that executes its next statement whenever
\* that statement can complete; I/O errors may happen but are never forced.
LiveSpec == Init /\ [][HandshakeNext]_vars /\ WF_vars(HandshakeRuns)

\* The peer sends a '\n' at some point or closes the stream.
PeerEndsLine == LineFeeds # {} \/ closes

\* C15 (as claimed): once the AUTH line is written and the peer sends a
\* '\n' or closes the stream, Connection::new ends with Ok or Err.
C15_Original ==
    (pc = "read_line" /\ PeerEndsLine) ~>
        (pc = "done" /\ result.kind \in {"Ok", "Err"})

\* What the code does give under the same condition: the call ends, with
\* Ok, Err or a panic, and needs no byte beyond the response line to do so.
C15_EndsSomehow ==
    (pc = "read_line" /\ PeerEndsLine) ~> (pc = "done")

\* The handshake takes from the socket the response line and at most what
\* came with it in the same socket reads; the line itself is read once.
C15_OneLineRead ==
    [][ /\ pc \in {"validate", "write_begin", "flush_begin"} =>
              (sock_pos' = sock_pos /\ br_buf' = br_buf)
        /\ (pc = "read_line" /\ pc' = "validate") =>
              (read_buf' = ResponseLine /\ sock_pos' - Len(br_buf') = LineEnd)
      ]_vars


\* ----------------------------------------------------------------- C16

\* C16 (as claimed): whatever bytes the server answers with, the call never
\* aborts, and a line that passed the checks of the terminator and of the
\* "OK " prefix is long enough for the slice that takes the GUID.
C16_Original ==
    /\ result.kind # Panicked.kind
    /\ ( /\ pc = "validate"
         /\ ~terminator_missing(read_buf)
         /\ has_ok_prefix(read_buf) ) => guid_in_bounds(read_buf)

\* ----------------------------------------------------------------- C17

\* C17 (as claimed): when Connection::new succeeds on a response line that
\* ends in "\r\n", the recorded GUID is 32 bytes long and lies wholly between
\* the "OK " prefix and the "\r\n": it holds neither of the two.
C17_Original ==
    (Connected /\ EndsWith(ResponseLine, CRLF)) =>
        /\ Len(server_guid) = GUID_LEN
        /\ Len(OK_PREFIX) + GUID_LEN <= Len(ResponseLine) - Len(CRLF)
        /\ \A i \in 1..Len(server_guid) : server_guid[i] \notin {CR, LF}


\* ----------------------------------------------------------------- C18

\* The bytes of the stream after the response line, and where each of them
\* is: removed by consume, available, held inside the reader, or still on
\* the socket.
AfterResponse == Drop(stream, LineEnd)
Delivery == consumed \o available \o br_buf \o Drop(stream, sock_pos)

\* C18: when Connection::new returns Ok, available() and the send buffer are
\* empty; from then on the bytes consumed, available, buffered in the reader
\* and left on the socket are, in this order, exactly the bytes of the stream
\* after the '\n' of the response line, so no byte of the line shows in
\* read_buf() and no byte after it is lost; and the first recv() delivers
\* the first of them, taken from the reader's read-ahead if there is any.
C18_AfterHandshake ==
    [][ /\ (Connected' /\ ~Connected) =>
              /\ available' = <<>>
              /\ write_buf' = <<>>
              /\ consumed' = <<>>
        /\ Connected' => Delivery' = AfterResponse'
        /\ (Connected /\ last.op = "new" /\ last'.op = "recv" /\ last'.ret = "Ok") =>
              /\ available' # <<>>
              /\ IsPrefix(available', AfterResponse)
              /\ br_buf # <<>> => IsPrefix(available', br_buf)
      ]_vars

\* Connection::new has just returned Ok, and all the bytes after the
\* response line came in with the socket read that brought its '\n'.
C18_Witness ==
    /\ Connected
    /\ last.op = "new"
    /\ GoodResponse
    /\ available = <<>>
    /\ write_buf = <<>>
    /\ br_buf = Extra(MaxExtra)
    /\ sock_pos = Len(stream)


\* ----------------------------------------------------------------- C19

\* C19: once Connection::new has returned Ok, every state reached by recv
\* and consume has 0 <= read_end <= read_buf.len() and read_buf.len() >= 1;
\* the slice recv reads into, read_buf[read_end..] after the growth, has at
\* least one byte; and a read of zero bytes happens only when the stream is
\* at its end, never because the buffer was full.
C19_ReadBounds ==
    [][ /\ Connected' =>
              /\ 0 <= read_end'
              /\ read_end' <= Len(read_buf')
              /\ Len(read_buf') >= 1
        /\ last'.op = "recv" =>
              /\ Len(read_buf') - read_end >= 1
              /\ last'.ret = "Ok" => last'.n \in 1..(Len(read_buf') - read_end)
              /\ (last'.ret = UnexpectedEof /\ read_end = Len(read_buf)) =>
                    (AtEndOfStream /\ Len(read_buf') > read_end)
      ]_vars

\* A recv on a full buffer, after a consume, that read zero bytes.
C19_Witness ==
    /\ Connected
    /\ last.op = "recv"
    /\ last.ret = UnexpectedEof
    /\ consumed # <<>>
    /\ read_end >= 1
    /\ Len(read_buf) = 2 * read_end
    /\ AtEndOfStream

====
